---- MODULE Spec2Model ----
(***************************************************************************)
(* A model of static-sync-pool: Pool[T], a wrapper around sync.Pool that   *)
(* pins a static number of items with a runtime.Pinner.                    *)
(*                                                                         *)
(* Threads call Get, Put and Reset concurrently.  Every access to a shared *)
(* field of the Pool (closed, internalPool, config.lazy, lazySize, pinner, *)
(* resetMu) is one step.  The environment is the garbage collector, which  *)
(* may drop items from the sync.Pool and reclaims unreachable items that   *)
(* are not pinned, and the borrowers, which write to the items they hold   *)
(* before they Put them back.                                              *)
(*                                                                         *)
(* Assumptions on the environment (code outside the repository):           *)
(*  - sync.Pool.Get calls New only when the pool holds no item;            *)
(*  - runtime.Pinner.Pin and Unpin are taken as atomic steps;              *)
(*  - the collector never reclaims an item whose pin count is positive.    *)
(***************************************************************************)
EXTENDS Naturals, FiniteSets

\* Bounds of the model: the threads, the items the heap has room for (on a
\* pool that is never Reset, and on a pool with Reset), and the largest
\* static size.
NumThreads == 2
MaxItems == 2
MaxItemsReset == 1
MaxStatic == 2

Threads == 1..NumThreads
Items == 1..MaxItems
NoItem == 0

VARIABLES
    heap,        \* the number of items the heap has room for
    built,       \* New has returned the pool
    staticSize,  \* config.staticSize
    lazy,        \* config.lazy
    pinned,      \* pinner: the items it holds pinned
    nPins,       \* pinner: the number of Pin calls it holds (one item may be pinned twice)
    pool,        \* internalPool: the items the sync.Pool holds
    lazySize,    \* lazySize
    closed,      \* closed
    resetMu,     \* resetMu: the thread holding it, or 0
    mem,         \* the heap: every item's contents, "free" when not allocated
    borrowed,    \* the items Get has returned and the callers still hold
    pc,          \* every thread's position
    item,        \* Get's local variable item
    retainedBefore \* history, kept under SpecNoting only: the items pinned when the
                   \* running Reset took the lock

vars == <<heap, built, staticSize, lazy, pinned, nPins, pool, lazySize, closed, resetMu, mem,
          borrowed, pc, item, retainedBefore>>

config == <<staticSize, lazy>>
history == <<retainedBefore>>

pinner == <<pinned, nPins>>

\* The items not allocated.
Free == {i \in 1..heap : mem[i] = "free"}

\* The items some Get or Put is working on.
InFlight == {item[t] : t \in Threads} \ {NoItem}

Min(S) == CHOOSE i \in S : \A j \in S : i <= j

\* newFunc(): the address of a new value (the lowest free one, addresses
\* being interchangeable).
newFunc == Min(Free)

\* The n lowest free addresses: the results of n calls of newFunc.
RECURSIVE NewItems(_, _)
NewItems(n, F) == IF n = 0 \/ F = {} THEN {} ELSE {Min(F)} \cup NewItems(n - 1, F \ {Min(F)})

TypeOK ==
    /\ heap \in Items
    /\ built \in BOOLEAN /\ lazy \in BOOLEAN /\ closed \in BOOLEAN
    /\ staticSize \in 0..MaxStatic
    /\ pinned \subseteq Items /\ nPins \in Nat
    /\ pool \subseteq Items /\ borrowed \subseteq Items
    /\ lazySize \in Nat
    /\ resetMu \in Threads \cup {0}
    /\ mem \in [Items -> {"free", "default", "dirty", "reset"}]
    /\ pc \in [Threads -> {"idle", "get", "lazy", "load", "pin", "add", "lock",
                           "close", "unpin", "force", "init", "open", "unlock"}]
    /\ item \in [Threads -> Items \cup {NoItem}]
    /\ retainedBefore \subseteq Items

\* The state before New, with a heap of h items.
InitHeap(h) ==
    /\ heap = h
    /\ built = FALSE
    /\ staticSize = 0
    /\ lazy = FALSE
    /\ pinned = {}
    /\ nPins = 0
    /\ pool = {}
    /\ lazySize = 0
    /\ closed = FALSE
    /\ resetMu = 0
    /\ mem = [i \in Items |-> "free"]
    /\ borrowed = {}
    /\ pc = [t \in Threads |-> "idle"]
    /\ item = [t \in Threads |-> NoItem]
    /\ retainedBefore = {}

Init == InitHeap(MaxItemsReset)

InitQuiet == InitHeap(MaxItems)

\* Pool.init without the call of Pin.
init_NoPin ==
    IF lazy'
    THEN /\ lazySize' = 0
         /\ UNCHANGED <<pinner, pool, mem>>
    ELSE LET new == NewItems(staticSize', Free) IN
         /\ Cardinality(Free) >= staticSize'
         /\ mem' = [i \in Items |-> IF i \in new THEN "default" ELSE mem[i]]
         /\ UNCHANGED pinner
         /\ pool' = pool \cup new
         /\ lazySize' = 0 + staticSize'

\* Pool.init with a loop that runs once more (i <= staticSize).
init_OneMore ==
    IF lazy'
    THEN /\ lazySize' = 0
         /\ UNCHANGED <<pinner, pool, mem>>
    ELSE LET new == NewItems(staticSize' + 1, Free) IN
         /\ Cardinality(Free) >= staticSize' + 1
         /\ mem' = [i \in Items |-> IF i \in new THEN "default" ELSE mem[i]]
         /\ pinned' = pinned \cup new
         /\ nPins' = nPins + staticSize' + 1
         /\ pool' = pool \cup new
         /\ lazySize' = 0 + staticSize'

\* Pool.init, reading the configuration of the next state: lazySize.Store(0),
\* then, unless lazy, staticSize times newFunc, Pin and internalPool.Put, and
\* lazySize.Add(staticSize).
init ==
    IF lazy'
    THEN /\ lazySize' = 0
         /\ UNCHANGED <<pinner, pool, mem>>
    ELSE LET new == NewItems(staticSize', Free) IN
         /\ Cardinality(Free) >= staticSize'
         /\ mem' = [i \in Items |-> IF i \in new THEN "default" ELSE mem[i]]
         /\ pinned' = pinned \cup new
         /\ nPins' = nPins + staticSize'
         /\ pool' = pool \cup new
         /\ lazySize' = 0 + staticSize'

\* New(newFunc, resetFunc, opts...): the options set the configuration, and
\* init runs before the pool is returned.
New(lz, n) ==
    /\ ~built
    /\ built' = TRUE
    /\ lazy' = lz
    /\ staticSize' = n
    /\ init
    /\ UNCHANGED <<heap, closed, resetMu, borrowed, pc, item, history>>

\* Get's return of its item to the caller, who holds it from then on.
Return(t) ==
    /\ borrowed' = borrowed \cup {item[t]}
    /\ item' = [item EXCEPT ![t] = NoItem]
    /\ pc' = [pc EXCEPT ![t] = "idle"]

\* Get that goes to the sync.Pool also when the pool is closed.
GetClosed_UsesPool(t) ==
    /\ built /\ pc[t] = "idle"
    /\ IF closed
       THEN \/ \E i \in pool :
                 /\ pool' = pool \ {i}
                 /\ borrowed' = borrowed \cup {i}
                 /\ UNCHANGED <<pc, mem>>
            \/ /\ pool = {}
               /\ Free # {}
               /\ mem' = [mem EXCEPT ![newFunc] = "default"]
               /\ borrowed' = borrowed \cup {newFunc}
               /\ UNCHANGED <<pc, pool>>
       ELSE /\ pc' = [pc EXCEPT ![t] = "get"]
            /\ UNCHANGED <<mem, borrowed, pool>>
    /\ UNCHANGED <<heap, built, config, pinner, lazySize, closed, resetMu, item, history>>

\* Get, p.closed.Load(): when the pool is closed, return newFunc().
GetClosed(t) ==
    /\ built /\ pc[t] = "idle"
    /\ IF closed
       THEN /\ Free # {}
            /\ mem' = [mem EXCEPT ![newFunc] = "default"]
            /\ borrowed' = borrowed \cup {newFunc}
            /\ UNCHANGED <<pc, pool>>
       ELSE /\ pc' = [pc EXCEPT ![t] = "get"]
            /\ UNCHANGED <<mem, borrowed, pool>>
    /\ UNCHANGED <<heap, built, config, pinner, lazySize, closed, resetMu, item, history>>

\* Get taking the reset lock's state into account: it waits while a Reset
\* holds resetMu.
GetPool_Locked(t) ==
    /\ pc[t] = "get"
    /\ resetMu = 0
    /\ \/ \E i \in pool :
            /\ pool' = pool \ {i}
            /\ item' = [item EXCEPT ![t] = i]
            /\ UNCHANGED mem
       \/ /\ pool = {}
          /\ Free # {}
          /\ mem' = [mem EXCEPT ![newFunc] = "default"]
          /\ item' = [item EXCEPT ![t] = newFunc]
          /\ UNCHANGED pool
    /\ pc' = [pc EXCEPT ![t] = "lazy"]
    /\ UNCHANGED <<heap, built, config, pinner, lazySize, closed, resetMu, borrowed, history>>

\* Get on a sync.Pool that never hands out what it holds: every call ends in
\* its New.
GetPool_New(t) ==
    /\ pc[t] = "get"
    /\ Free # {}
    /\ mem' = [mem EXCEPT ![newFunc] = "default"]
    /\ item' = [item EXCEPT ![t] = newFunc]
    /\ pc' = [pc EXCEPT ![t] = "lazy"]
    /\ UNCHANGED <<heap, built, config, pinner, pool, lazySize, closed, resetMu, borrowed,
                   history>>

\* Get, item := p.internalPool.Get(): an item of the sync.Pool, or the result
\* of its New (newFunc) when it holds none.
GetPool(t) ==
    /\ pc[t] = "get"
    /\ \/ \E i \in pool :
            /\ pool' = pool \ {i}
            /\ item' = [item EXCEPT ![t] = i]
            /\ UNCHANGED mem
       \/ /\ pool = {}
          /\ Free # {}
          /\ mem' = [mem EXCEPT ![newFunc] = "default"]
          /\ item' = [item EXCEPT ![t] = newFunc]
          /\ UNCHANGED pool
    /\ pc' = [pc EXCEPT ![t] = "lazy"]
    /\ UNCHANGED <<heap, built, config, pinner, lazySize, closed, resetMu, borrowed, history>>

\* Get with the test of lazy inverted: if p.config.lazy { return item }.
GetLazy_Inverted(t) ==
    /\ pc[t] = "lazy"
    /\ IF lazy
       THEN Return(t)
       ELSE /\ pc' = [pc EXCEPT ![t] = "load"]
            /\ UNCHANGED <<borrowed, item>>
    /\ UNCHANGED <<heap, built, config, pinner, pool, lazySize, closed, resetMu, mem, history>>

\* Get, if !p.config.lazy { return item }.
GetLazy(t) ==
    /\ pc[t] = "lazy"
    /\ IF ~lazy
       THEN Return(t)
       ELSE /\ pc' = [pc EXCEPT ![t] = "load"]
            /\ UNCHANGED <<borrowed, item>>
    /\ UNCHANGED <<heap, built, config, pinner, pool, lazySize, closed, resetMu, mem, history>>

\* Get comparing with > for >=: it pins also when lazySize is staticSize.
GetLoad_Strict(t) ==
    /\ pc[t] = "load"
    /\ IF lazySize > staticSize
       THEN Return(t)
       ELSE /\ pc' = [pc EXCEPT ![t] = "pin"]
            /\ UNCHANGED <<borrowed, item>>
    /\ UNCHANGED <<heap, built, config, pinner, pool, lazySize, closed, resetMu, mem, history>>

\* Get, currentLazySize := p.lazySize.Load() and its comparison with
\* staticSize.
GetLoad(t) ==
    /\ pc[t] = "load"
    /\ IF lazySize >= staticSize
       THEN Return(t)
       ELSE /\ pc' = [pc EXCEPT ![t] = "pin"]
            /\ UNCHANGED <<borrowed, item>>
    /\ UNCHANGED <<heap, built, config, pinner, pool, lazySize, closed, resetMu, mem, history>>

\* Get, p.pinner.Pin(item).
GetPin(t) ==
    /\ pc[t] = "pin"
    /\ pinned' = pinned \cup {item[t]}
    /\ nPins' = nPins + 1
    /\ pc' = [pc EXCEPT ![t] = "add"]
    /\ UNCHANGED <<heap, built, config, pool, lazySize, closed, resetMu, mem, borrowed,
                   item, history>>

\* Get, p.lazySize.Add(1) and return item.
GetAdd(t) ==
    /\ pc[t] = "add"
    /\ lazySize' = lazySize + 1
    /\ Return(t)
    /\ UNCHANGED <<heap, built, config, pinner, pool, closed, resetMu, mem, history>>

\* The heap after the borrower of i used it: it wrote to it (w) or not.  A
\* borrower's writes are to an item nobody else holds, so that they are taken
\* to happen right before its Put.
Used(i, w) == IF w THEN [mem EXCEPT ![i] = "dirty"] ELSE mem

\* resetFunc(item): the heap m after the caller's reset function ran on i.
resetFunc(m, i) == [m EXCEPT ![i] = "reset"]

\* Put without the call of resetFunc.
Put_NoReset(t, i, w) ==
    /\ built /\ pc[t] = "idle"
    /\ i \in borrowed
    /\ mem' = Used(i, w)
    /\ pool' = pool \cup {i}
    /\ borrowed' = borrowed \ {i}
    /\ UNCHANGED <<heap, built, config, pinner, lazySize, closed, resetMu, pc, item, history>>

\* Put that resets the item and does not hand it to the sync.Pool.
Put_Drop(t, i, w) ==
    /\ built /\ pc[t] = "idle"
    /\ i \in borrowed
    /\ mem' = resetFunc(Used(i, w), i)
    /\ borrowed' = borrowed \ {i}
    /\ UNCHANGED <<heap, built, config, pinner, pool, lazySize, closed, resetMu, pc, item,
                   history>>

\* Put that looks at closed as Get does, and keeps the item out of the
\* sync.Pool while a Reset has the pool closed.
Put_Closed(t, i, w) ==
    /\ built /\ pc[t] = "idle"
    /\ i \in borrowed
    /\ mem' = resetFunc(Used(i, w), i)
    /\ pool' = IF closed THEN pool ELSE pool \cup {i}
    /\ borrowed' = borrowed \ {i}
    /\ UNCHANGED <<heap, built, config, pinner, lazySize, closed, resetMu, pc, item, history>>

\* Put(item) of an item the caller holds: resetFunc, then internalPool.Put.
Put(t, i, w) ==
    /\ built /\ pc[t] = "idle"
    /\ i \in borrowed
    /\ mem' = resetFunc(Used(i, w), i)
    /\ pool' = pool \cup {i}
    /\ borrowed' = borrowed \ {i}
    /\ UNCHANGED <<heap, built, config, pinner, lazySize, closed, resetMu, pc, item, history>>

\* A call of Reset, which then waits for resetMu.
CallReset(t) ==
    /\ built /\ pc[t] = "idle"
    /\ pc' = [pc EXCEPT ![t] = "lock"]
    /\ UNCHANGED <<heap, built, config, pinner, pool, lazySize, closed, resetMu, mem,
                   borrowed, item, history>>

\* Reset without waiting for resetMu.
ResetLock_NoWait(t) ==
    /\ pc[t] = "lock"
    /\ resetMu' = t
    /\ pc' = [pc EXCEPT ![t] = "close"]
    /\ UNCHANGED <<heap, built, config, pinner, pool, lazySize, closed, mem, borrowed,
                   item, history>>

\* Reset, p.resetMu.Lock().
ResetLock(t) ==
    /\ pc[t] = "lock"
    /\ resetMu = 0
    /\ resetMu' = t
    /\ pc' = [pc EXCEPT ![t] = "close"]
    /\ UNCHANGED <<heap, built, config, pinner, pool, lazySize, closed, mem, borrowed,
                   item, history>>

\* Reset, p.resetMu.Lock(), noting the items that are pinned then.
ResetLockNoting(t) ==
    /\ pc[t] = "lock"
    /\ resetMu = 0
    /\ resetMu' = t
    /\ pc' = [pc EXCEPT ![t] = "close"]
    /\ retainedBefore' = pinned
    /\ UNCHANGED <<heap, built, config, pinner, pool, lazySize, closed, mem, borrowed,
                   item>>

\* Reset, p.closed.Store(true).
ResetClose(t) ==
    /\ pc[t] = "close"
    /\ closed' = TRUE
    /\ pc' = [pc EXCEPT ![t] = "unpin"]
    /\ UNCHANGED <<heap, built, config, pinner, pool, lazySize, resetMu, mem, borrowed,
                   item, history>>

\* Reset that zeroes lazySize along with its Unpin, ahead of init.
ResetUnpin_Zero(t) ==
    /\ pc[t] = "unpin"
    /\ pinned' = {}
    /\ nPins' = 0
    /\ lazySize' = 0
    /\ pc' = [pc EXCEPT ![t] = "force"]
    /\ UNCHANGED <<heap, built, config, pool, closed, resetMu, mem, borrowed, item, history>>

\* Reset, p.pinner.Unpin(): every pin of the pinner is dropped.
ResetUnpin(t) ==
    /\ pc[t] = "unpin"
    /\ pinned' = {}
    /\ nPins' = 0
    /\ pc' = [pc EXCEPT ![t] = "force"]
    /\ UNCHANGED <<heap, built, config, pool, lazySize, closed, resetMu, mem, borrowed,
                   item, history>>

\* Reset that leaves the configuration as it is.
ResetForce_Keep(t) ==
    /\ pc[t] = "force"
    /\ pc' = [pc EXCEPT ![t] = "init"]
    /\ UNCHANGED <<heap, built, config, pinner, pool, lazySize, closed, resetMu, mem,
                   borrowed, item, history>>

\* Reset that flips the configuration: p.config.lazy = !p.config.lazy.
ResetForce_Toggle(t) ==
    /\ pc[t] = "force"
    /\ lazy' = ~lazy
    /\ pc' = [pc EXCEPT ![t] = "init"]
    /\ UNCHANGED <<heap, built, staticSize, pinner, pool, lazySize, closed, resetMu, mem,
                   borrowed, item, history>>

\* Reset, p.config.lazy = true.
ResetForce(t) ==
    /\ pc[t] = "force"
    /\ lazy' = TRUE
    /\ pc' = [pc EXCEPT ![t] = "init"]
    /\ UNCHANGED <<heap, built, staticSize, pinner, pool, lazySize, closed, resetMu, mem,
                   borrowed, item, history>>

\* Reset, p.init().
ResetInit(t) ==
    /\ pc[t] = "init"
    /\ UNCHANGED config
    /\ init
    /\ pc' = [pc EXCEPT ![t] = "open"]
    /\ UNCHANGED <<heap, built, closed, resetMu, borrowed, item, history>>

\* Reset, p.closed.Store(false).
ResetOpen(t) ==
    /\ pc[t] = "open"
    /\ closed' = FALSE
    /\ pc' = [pc EXCEPT ![t] = "unlock"]
    /\ UNCHANGED <<heap, built, config, pinner, pool, lazySize, resetMu, mem, borrowed,
                   item, history>>

\* Reset without the deferred Unlock: it returns holding resetMu.
ResetUnlock_Keep(t) ==
    /\ pc[t] = "unlock"
    /\ pc' = [pc EXCEPT ![t] = "idle"]
    /\ retainedBefore' = {}
    /\ UNCHANGED <<heap, built, config, pinner, pool, lazySize, closed, resetMu, mem,
                   borrowed, item>>

\* Reset, the deferred p.resetMu.Unlock(), and the return.
ResetUnlock(t) ==
    /\ pc[t] = "unlock"
    /\ resetMu' = 0
    /\ pc' = [pc EXCEPT ![t] = "idle"]
    /\ retainedBefore' = {}
    /\ UNCHANGED <<heap, built, config, pinner, pool, lazySize, closed, mem, borrowed,
                   item>>

\* The items the collector may reclaim once the sync.Pool has dropped D:
\* allocated, not pinned, held by no caller, by no running call and by the
\* sync.Pool no more.
Garbage(D) ==
    {i \in Items : /\ mem[i] # "free"
                   /\ i \notin pinned
                   /\ i \notin borrowed \cup InFlight
                   /\ i \notin pool \ D}

\* runtime.GC(): the sync.Pool drops the items D, and the garbage is freed.
Collect(D) ==
    /\ built
    /\ pool' = pool \ D
    /\ mem' = [i \in Items |-> IF i \in Garbage(D) THEN "free" ELSE mem[i]]
    /\ UNCHANGED <<heap, built, config, pinner, lazySize, closed, resetMu, borrowed, pc,
                   item, history>>

\* The steps of New, Get and Put, and of the collector.
QuietSteps ==
    \/ \E lz \in BOOLEAN, n \in 0..MaxStatic : New(lz, n)
    \/ \E t \in Threads : GetClosed(t)
    \/ \E t \in Threads : GetPool(t)
    \/ \E t \in Threads : GetLazy(t)
    \/ \E t \in Threads : GetLoad(t)
    \/ \E t \in Threads : GetPin(t)
    \/ \E t \in Threads : GetAdd(t)
    \/ \E t \in Threads, i \in Items, w \in BOOLEAN : Put(t, i, w)
    \/ \E D \in SUBSET pool : Collect(D)

\* The steps of Reset but for Lock.
ResetSteps ==
    \/ \E t \in Threads : CallReset(t)
    \/ \E t \in Threads : ResetClose(t)
    \/ \E t \in Threads : ResetUnpin(t)
    \/ \E t \in Threads : ResetForce(t)
    \/ \E t \in Threads : ResetInit(t)
    \/ \E t \in Threads : ResetOpen(t)
    \/ \E t \in Threads : ResetUnlock(t)

Next ==
    \/ QuietSteps
    \/ ResetSteps
    \/ \E t \in Threads : ResetLock(t)

Spec == Init /\ [][Next]_vars

\* The pool on which Reset is never called: New, Get, Put and the collector.
NextQuiet == QuietSteps

SpecQuiet == InitQuiet /\ [][NextQuiet]_vars

\* The pool with the history variable retainedBefore kept.
NextNoting ==
    \/ QuietSteps
    \/ ResetSteps
    \/ \E t \in Threads : ResetLockNoting(t)

SpecNoting == Init /\ [][NextNoting]_vars

\* The steps of a Reset that holds resetMu.
ResetHeld(t) ==
    \/ ResetClose(t)
    \/ ResetUnpin(t)
    \/ ResetForce(t)
    \/ ResetInit(t)
    \/ ResetOpen(t)
    \/ ResetUnlock(t)

\* Fair scheduling of Reset: a goroutine inside Reset is not stalled for ever
\* before a step it can take (weak fairness of the steps after Lock, none of
\* which waits for anything), and a goroutine waiting in resetMu.Lock() gets
\* the lock when it is freed again and again (strong fairness: a sync.Mutex
\* hands the lock to a waiter that has waited long, in its starvation mode).
\* Nothing is assumed of Get, Put, the collector or the calling of Reset.
ResetFairness ==
    \A t \in Threads :
        /\ SF_vars(ResetLock(t))
        /\ WF_vars(ResetHeld(t))

\* The steps of New, Get and Reset: the calls that read or write what a
\* Reset reads or writes (closed, lazy, lazySize, the pinner, resetMu).  The
\* callers keep the items they get.
NextFair ==
    \/ \E lz \in BOOLEAN, n \in 0..MaxStatic : New(lz, n)
    \/ \E t \in Threads : GetClosed(t)
    \/ \E t \in Threads : GetPool(t)
    \/ \E t \in Threads : GetLazy(t)
    \/ \E t \in Threads : GetLoad(t)
    \/ \E t \in Threads : GetPin(t)
    \/ \E t \in Threads : GetAdd(t)
    \/ ResetSteps
    \/ \E t \in Threads : ResetLock(t)

SpecFair == Init /\ [][NextFair]_vars /\ ResetFairness

\* The thread of a program that uses the pool from one goroutine, as TestPool
\* does.
main == Min(Threads)

\* The steps of a sequential use of the pool: New, Get, Put and Reset called
\* from one goroutine, and the collector.
NextSeq ==
    \/ \E lz \in BOOLEAN, n \in 0..MaxStatic : New(lz, n)
    \/ GetClosed(main)
    \/ GetPool(main)
    \/ GetLazy(main)
    \/ GetLoad(main)
    \/ GetPin(main)
    \/ GetAdd(main)
    \/ \E i \in Items, w \in BOOLEAN : Put(main, i, w)
    \/ \E D \in SUBSET pool : Collect(D)
    \/ CallReset(main)
    \/ ResetLock(main)
    \/ ResetClose(main)
    \/ ResetUnpin(main)
    \/ ResetForce(main)
    \/ ResetInit(main)
    \/ ResetOpen(main)
    \/ ResetUnlock(main)

SpecSeq == InitQuiet /\ [][NextSeq]_vars

(***************************************************************************)
(* The claims.                                                             *)
(***************************************************************************)

\* The items allocated.
Allocated == {i \in Items : mem[i] # "free"}

\* C1: on a pool built eagerly with staticSize = N on which Reset is never
\* called, in every state at least N distinct items are pinned and no pinned
\* item has been reclaimed, whatever Get, Put and the collector do; and the
\* set of pinned items never shrinks (no Reset being there to unpin).
C1_EagerRetained ==
    /\ [](built /\ ~lazy => /\ Cardinality(pinned) >= staticSize
                            /\ \A i \in pinned : mem[i] # "free")
    /\ [][pinned \subseteq pinned']_vars

\* C1's case: the collector has emptied the sync.Pool of an eager pool of
\* size 2, and both items are pinned still.
C1_Witness ==
    /\ built /\ ~lazy /\ staticSize = 2
    /\ pool = {} /\ borrowed = {} /\ InFlight = {}
    /\ Cardinality(pinned) = 2

\* What New leaves: eager, staticSize items from staticSize calls of newFunc,
\* each pinned and in the sync.Pool, and lazySize = staticSize; lazy, nothing
\* allocated, nothing pinned and lazySize = 0.
NewPost ==
    IF lazy
    THEN Allocated = {} /\ pinned = {} /\ nPins = 0 /\ pool = {} /\ lazySize = 0
    ELSE /\ Cardinality(Allocated) = staticSize
         /\ \A i \in Allocated : mem[i] = "default"
         /\ pinned = Allocated /\ nPins = staticSize
         /\ pool = Allocated
         /\ lazySize = staticSize

\* C2: when New returns, for lazy = false the factory has been called exactly
\* staticSize times, each result is pinned and in the reuse pool and lazySize
\* is staticSize; for lazy = true the factory has not been called, nothing is
\* pinned and lazySize is 0.
C2_NewPostcondition == [][~built /\ built' => NewPost']_vars

\* C2's case: New has just returned an eager pool of size 2.
C2_Witness ==
    /\ built /\ ~lazy /\ staticSize = 2
    /\ Cardinality(pool) = 2 /\ pinned = pool /\ lazySize = 2
    /\ borrowed = {} /\ InFlight = {}

\* C3: every item in the reuse pool, and every item a Get holds or has
\* returned, is in default state or in reset state: never in the state a
\* borrower's writes left it in.
C3_ReuseCorrectness ==
    \A i \in pool \cup InFlight \cup borrowed : mem[i] \in {"default", "reset"}

\* C3's case: a Get has taken from the sync.Pool an item a Put released.
C3_Witness ==
    \E t \in Threads : pc[t] = "lazy" /\ mem[item[t]] = "reset"

\* C4: on a lazy pool without Reset, once lazySize has reached staticSize
\* at least staticSize distinct items are pinned.
C4_MinimumStatic ==
    built /\ lazy /\ lazySize >= staticSize => Cardinality(pinned) >= staticSize

\* The positions of a Reset that holds resetMu.
Holding == {"close", "unpin", "force", "init", "open", "unlock"}

\* The positions of a Reset.
InReset == Holding \cup {"lock"}

\* C5 (under SpecNoting): when a Reset returns, no item that was pinned when
\* it took the lock is pinned.
C5_ResetRevokes ==
    \A t \in Threads : pc[t] = "unlock" => retainedBefore \cap pinned = {}

\* C6: when a Reset returns, lazy is true and lazySize is 0.
C6_ResetPost ==
    \A t \in Threads : pc[t] = "unlock" => lazy /\ lazySize = 0

\* C7: once the pool is built, lazy never goes from true to false; no step of
\* a Reset calls the factory or adds a pin; and the only step that adds a pin
\* is Get's Pin, which adds one pin, of the item that Get holds.
C7_ResetForcesLazy ==
    [][/\ built /\ lazy => lazy'
       /\ \A t \in Threads :
            pc[t] \in InReset /\ pc'[t] # pc[t] =>
                mem' = mem /\ pinned' \subseteq pinned /\ nPins' <= nPins
       /\ built /\ (nPins' > nPins \/ ~(pinned' \subseteq pinned)) =>
            \E t \in Threads :
                /\ pc[t] = "pin" /\ pc'[t] = "add"
                /\ nPins' = nPins + 1
                /\ pinned' = pinned \cup {item[t]}]_vars

\* C7's case: a Reset has run init on a pool whose sync.Pool holds an item
\* in default state (as New's init left it), lazy is forced and nothing is
\* pinned.
C7_Witness ==
    \E t \in Threads :
        /\ pc[t] = "open" /\ lazy /\ staticSize > 0
        /\ pinned = {} /\ nPins = 0 /\ lazySize = 0
        /\ \E i \in pool : mem[i] = "default"

\* C8: a Get that reads closed as true (the call returns in that step, and the
\* callers hold one item more) returns the result of one factory call, an
\* item that was free and is in default state, and leaves the sync.Pool, the
\* pinner, lazySize and the configuration unchanged.
C8_ClosedGetFrame ==
    [][closed /\ pc' = pc /\ borrowed' # borrowed /\ borrowed \subseteq borrowed' =>
          /\ \E i \in Free : /\ borrowed' = borrowed \cup {i}
                             /\ mem' = [mem EXCEPT ![i] = "default"]
          /\ UNCHANGED <<pool, pinner, lazySize, config>>]_vars

\* C8's case: the pool, lazy and with a static size to reach, is closed by a
\* Reset that has not unpinned yet, and a caller holds an item in default
\* state that no Get has pinned.
C8_Witness ==
    /\ closed /\ lazy /\ staticSize > 0 /\ lazySize = 0 /\ nPins = 0
    /\ \E i \in borrowed : mem[i] = "default"
    /\ \E t \in Threads : pc[t] = "unpin"

\* C9: at most one Reset is between Lock and Unlock, resetMu names it, and a
\* Reset waiting for the lock cannot take a step while another holds it.
C9_ResetExclusive ==
    /\ Cardinality({t \in Threads : pc[t] \in Holding}) <= 1
    /\ \A t \in Threads : pc[t] \in Holding <=> resetMu = t
    /\ \A t \in Threads :
         pc[t] = "lock" /\ (\E r \in Threads : pc[r] \in Holding) =>
             ~ENABLED ResetLock(t)

\* C9's case: one Reset is past its Unpin while another waits for the lock.
C9_Witness ==
    \E r, t \in Threads : pc[r] = "force" /\ pc[t] = "lock"

Racing == {t \in Threads : pc[t] \in {"pin", "add"}}

Taken == borrowed \cup InFlight

\* An eager pool on which nothing but Gets has run since New: the items init
\* made are all there is, each in default state and in the sync.Pool or taken
\* by a Get.
FreshEager ==
    /\ built /\ ~lazy
    /\ Allocated = pinned
    /\ pool \cup Taken = pinned
    /\ \A i \in Allocated : mem[i] = "default"

\* C12: on an eager pool of size N on which only Gets have run since New, the
\* factory has been called N times; as long as fewer than N items are taken,
\* a Get takes its item from the sync.Pool without a factory call, an item in
\* default state that no other Get has taken; and a Get returns the item it
\* took, one the callers do not hold yet.
C12_EagerFill ==
    /\ [](FreshEager => /\ Cardinality(Allocated) = staticSize
                        /\ pool \cap Taken = {})
    /\ [][\A t \in Threads :
            /\ FreshEager /\ Cardinality(Taken) < staticSize
                 /\ pc[t] = "get" /\ pc'[t] # "get" =>
                    /\ item'[t] \in pool \ Taken
                    /\ mem[item'[t]] = "default"
                    /\ mem' = mem
                    /\ FreshEager'
            /\ FreshEager /\ pc[t] \in {"lazy", "load", "add"} /\ pc'[t] = "idle" =>
                    /\ item[t] \notin borrowed
                    /\ borrowed' = borrowed \cup {item[t]}
                    /\ mem'[item[t]] = "default"
                    /\ UNCHANGED <<mem, pool, pinner, lazySize>>]_vars

\* C12's case: two Gets on a new eager pool of size 2 have returned its two
\* items, both in default state, and the sync.Pool is empty.
C12_Witness ==
    /\ FreshEager /\ staticSize = 2
    /\ Cardinality(borrowed) = 2 /\ pool = {} /\ InFlight = {}

\* A pool of size N after N Gets and the Puts of their N items: N items are
\* allocated, each in reset state and in the sync.Pool or taken by a later
\* Get.
WarmedUp ==
    /\ built
    /\ Cardinality(Allocated) = staticSize
    /\ Allocated = pool \cup Taken /\ pool \cap Taken = {}
    /\ \A i \in Allocated : mem[i] = "reset"

\* C13 (one goroutine): a Put leaves its item in reset state in the
\* sync.Pool; on a pool of size N whose N items have all been taken and put
\* back, a Get takes an item in reset state from the sync.Pool, without a
\* factory call, as long as fewer than N are taken, and the Get after the
\* N-th takes the result of a factory call, a new item in default state;
\* and every Get returns the item it took as it is.  Eager or made lazy by
\* a Reset, the pool behaves the same.
C13_RoundTrip ==
    [][\A t \in Threads :
        /\ \A i \in borrowed \ borrowed' : i \in pool' /\ mem'[i] = "reset"
        /\ WarmedUp /\ pc[t] = "get" /\ pc'[t] # "get" =>
              IF Cardinality(Taken) < staticSize
              THEN /\ item'[t] \in pool
                   /\ mem[item'[t]] = "reset"
                   /\ mem' = mem
                   /\ WarmedUp'
              ELSE /\ item'[t] \notin Allocated
                   /\ mem' = [mem EXCEPT ![item'[t]] = "default"]
                   /\ pool' = pool
        /\ pc[t] \in {"lazy", "load", "add"} /\ pc'[t] = "idle" =>
              /\ borrowed' = borrowed \cup {item[t]}
              /\ mem' = mem]_vars

\* C13's case: on a pool made lazy, of size N > 0, N pinned items in reset
\* state have been taken again, and one Get more has returned a new item in
\* default state.
C13_Witness ==
    /\ built /\ lazy /\ staticSize > 0 /\ pool = {} /\ InFlight = {}
    /\ Cardinality({i \in borrowed : mem[i] = "reset" /\ i \in pinned}) = staticSize
    /\ \E i \in borrowed : mem[i] = "default" /\ i \notin pinned

\* What a Reset leaves when nothing else runs: lazy, lazySize = 0, the pool
\* open, nothing pinned and resetMu free.
AfterReset ==
    /\ lazy /\ lazySize = 0 /\ ~closed
    /\ pinned = {} /\ nPins = 0
    /\ resetMu = 0

\* C14 (one goroutine): a Reset returns with lazy = true, lazySize = 0,
\* closed = false, nothing pinned and resetMu free; and no step of a Reset
\* that runs on a pool in that state changes the configuration, lazySize, the
\* pinner, the sync.Pool or an item: when it returns, the state is the one
\* it was called in.
C14_ResetIdempotent ==
    [][\A t \in Threads :
        /\ pc[t] = "unlock" /\ pc'[t] = "idle" => AfterReset'
        /\ pc[t] \in InReset \cup {"idle"} /\ pc'[t] \in InReset /\ pc'[t] # pc[t]
             /\ lazy /\ lazySize = 0 /\ pinned = {} /\ nPins = 0 =>
                UNCHANGED <<config, lazySize, pinner, pool, mem, borrowed>>]_vars

\* C14's case: a Reset has run its Unpin and not yet set lazy, on a pool
\* that an earlier Reset made lazy (the sync.Pool holds an item in default
\* state, which only the init of an eager New puts there).
C14_Witness ==
    /\ pc[main] = "force" /\ lazy /\ staticSize > 0
    /\ pinned = {} /\ nPins = 0 /\ lazySize = 0
    /\ \E i \in pool : mem[i] = "default"
    /\ borrowed = {}

\* C15: while the pool is closed (from Reset's closed.Store(true) to its
\* closed.Store(false)) no Get takes its Pin step or its Add step.
C15_ClosedKeepsPinner ==
    [][\A t \in Threads :
        closed /\ pc[t] \in {"pin", "add"} => pc'[t] = pc[t]]_vars

\* C16: a Get that read closed as false goes on to Pin and Add exactly when
\* it reads lazy as true and then lazySize below staticSize: it returns with
\* the pinner and lazySize as they are when it reads lazy as false or
\* lazySize at or above staticSize (staticSize = 0 included); otherwise it
\* pins the item it holds, once, adds 1 to lazySize and returns that item;
\* and no other step of a Get changes the pinner or lazySize.
C16_GetPinsIff ==
    [][\A t \in Threads :
        /\ pc[t] \in {"idle", "get"} /\ pc'[t] \in {"get", "lazy"} /\ pc'[t] # pc[t] =>
              UNCHANGED <<pinner, lazySize>>
        /\ pc[t] = "lazy" /\ pc'[t] # "lazy" =>
              /\ pc'[t] = (IF lazy THEN "load" ELSE "idle")
              /\ UNCHANGED <<pinner, lazySize>>
        /\ pc[t] = "load" /\ pc'[t] # "load" =>
              /\ pc'[t] = (IF lazySize < staticSize THEN "pin" ELSE "idle")
              /\ UNCHANGED <<pinner, lazySize>>
        /\ pc[t] = "pin" /\ pc'[t] # "pin" =>
              /\ pc'[t] = "add"
              /\ pinned' = pinned \cup {item[t]} /\ nPins' = nPins + 1
              /\ item'[t] = item[t]
              /\ UNCHANGED lazySize
        /\ pc[t] = "add" /\ pc'[t] # "add" =>
              /\ pc'[t] = "idle"
              /\ lazySize' = lazySize + 1
              /\ borrowed' = borrowed \cup {item[t]}
              /\ UNCHANGED pinner]_vars

\* C16's case: a Get on a lazy pool of size 1 has pinned its item and
\* counted it, the caller holds the item, and no call is running.
C16_Witness ==
    /\ built /\ lazy /\ staticSize = 1 /\ lazySize = 1 /\ nPins = 1
    /\ \E i \in borrowed : i \in pinned
    /\ \A t \in Threads : pc[t] = "idle"

\* A step that is the init of a Reset.
InitOfReset == \E t \in Threads : pc[t] = "init" /\ pc'[t] = "open"

\* C17: the only step that lowers lazySize is the init of a Reset (New's
\* init starts from 0), which leaves it at 0; and once the pool is built and
\* lazySize is at or above staticSize, it stays so in every step but the
\* init of a Reset.
C17_CountMonotone ==
    [][/\ lazySize' < lazySize => InitOfReset /\ lazySize' = 0
       /\ built /\ lazySize >= staticSize /\ ~InitOfReset =>
             lazySize' >= lazySize /\ lazySize' >= staticSize']_vars

\* C17's case: Gets have brought lazySize to staticSize on a lazy pool, and
\* a Reset has closed the pool and is about to unpin: the count is still
\* what the Gets made it.
C17_Witness ==
    /\ built /\ lazy /\ staticSize > 0 /\ lazySize = staticSize
    /\ nPins = staticSize
    /\ \E t \in Threads : pc[t] = "unpin"

\* C18: a Put (the one step after which the callers hold an item less) puts
\* its item into the sync.Pool in reset state and changes no other item, nor
\* lazySize, the pinner, the configuration, closed, resetMu or a running
\* call; and a caller that runs no call can Put any item it holds, pinned or
\* not, whatever a Reset is doing.
C18_PutFrame ==
    /\ [][\A i \in borrowed \ borrowed' :
            /\ borrowed' = borrowed \ {i}
            /\ pool' = pool \cup {i}
            /\ mem'[i] = "reset"
            /\ \A j \in Items \ {i} : mem'[j] = mem[j]
            /\ UNCHANGED <<lazySize, pinner, config, closed, resetMu, pc, item>>]_vars
    /\ [](\A t \in Threads, i \in borrowed :
            pc[t] = "idle" => ENABLED Put(t, i, TRUE) /\ ENABLED Put(t, i, FALSE))

\* C18's case: while a Reset has the pool closed and has not unpinned yet,
\* the sync.Pool holds a pinned item in reset state, as a Put left it.
C18_Witness ==
    /\ closed /\ \E r \in Threads : pc[r] = "unpin"
    /\ \E i \in pool \cap pinned : mem[i] = "reset"

\* C19 (under SpecFair): every Reset that has been called returns, also one
\* that waits for resetMu behind others; whenever no Reset is running,
\* resetMu is free and closed is false; and closed is true only while a Reset
\* holds resetMu.
C19_ResetReturns ==
    /\ \A t \in Threads : (pc[t] \in InReset) ~> (pc[t] = "idle")
    /\ []((\A t \in Threads : pc[t] \notin InReset) => resetMu = 0 /\ ~closed)
    /\ [](closed => \E t \in Threads : pc[t] \in Holding /\ resetMu = t)

\* C19's case: a Reset waits for resetMu while another Reset, which has
\* closed the pool, holds it.
C19_Witness ==
    \E r, t \in Threads : pc[r] = "init" /\ pc[t] = "lock" /\ closed /\ resetMu = r

\* C20: whenever no call is running, lazySize is the number of pins the
\* pinner holds.
C20_CountAgreesWithPins ==
    (\A t \in Threads : pc[t] = "idle") => lazySize = nPins

====
